---- MODULE Spec2Model ----
(***************************************************************************)
(* Model of the volatility-estimation and option-pricing engine of         *)
(* FullBlackScholes.py (and the stand-alone black_scholes of               *)
(* BlackScholesForCall&PutOption.py).                                      *)
(*                                                                         *)
(* Floating-point numbers are modelled as numpy float64 values on a        *)
(* fixed-point grid: a value is NaN, +inf, -inf, or a finite number kept   *)
(* as an integer count of 1/SCALE units.  Arithmetic follows numpy's       *)
(* IEEE-754 rules for the special values (x/0 = +-inf, 0/0 = NaN,          *)
(* inf - inf = NaN, sqrt and log of a negative number = NaN, ...).         *)
(***************************************************************************)
EXTENDS Integers, Sequences, FiniteSets

(***************************************************************************)
(* The state: the function called last (fn), its arguments, and what the   *)
(* call did: the value returned, whether an exception left the function,   *)
(* the levels of the log records written, the callees entered and the      *)
(* divisions performed.                                                    *)
(***************************************************************************)
VARIABLES fn, args, ret, raised, log, calls, divs
vars == <<fn, args, ret, raised, log, calls, divs>>

(***************************************************************************)
(* Bounds of the model.                                                    *)
(***************************************************************************)
\* longest strike sequence handed to calculate_greeks
MaxStrikes == 2
\* longest close-price history handed to calculate_annualized_volatility
MaxHist == 33

\* fixed-point unit: a finite value v stands for the number v / SCALE
SCALE == 10 * 10 * 10

(***************************************************************************)
(* float64 values                                                          *)
(***************************************************************************)
NaN == [k |-> "nan", v |-> 0]
PosInf == [k |-> "inf", v |-> 1]
NegInf == [k |-> "inf", v |-> -1]
Fin(n) == [k |-> "fin", v |-> n]
\* a whole number as a float
Num(n) == Fin(n * SCALE)

IsNan(x) == x.k = "nan"
IsInf(x) == x.k = "inf"
IsFin(x) == x.k = "fin"
IsZero(x) == x.k = "fin" /\ x.v = 0

Abs(n) == IF n < 0 THEN -n ELSE n
Sgn(n) == IF n < 0 THEN -1 ELSE IF n > 0 THEN 1 ELSE 0
\* the sign of a non-NaN float (0 for zero)
FSign(x) == Sgn(x.v)
InfOf(s) == IF s < 0 THEN NegInf ELSE PosInf

\* a / b rounded to the nearest integer, b > 0, symmetric in the sign of a
Rnd(a, b) == Sgn(a) * ((2 * Abs(a) + b) \div (2 * b))
MulFx(a, b) == Rnd(a * b, SCALE)
DivFx(a, b) == Sgn(b) * Rnd(a * SCALE, Abs(b))

\* the largest base-16 digit d with (acc + d*w)^2 <= n, within 32-bit range
SqrtDigit(n, acc, w) ==
    LET fits(d) == acc + d * w <= 46340 /\ (acc + d * w) * (acc + d * w) <= n
    IN CHOOSE d \in 0..15 : fits(d) /\ (d = 15 \/ ~fits(d + 1))
\* the integer square root of n >= 0, digit by digit
ISqrt(n) ==
    LET a3 == 4096 * SqrtDigit(n, 0, 4096)
        a2 == a3 + 256 * SqrtDigit(n, a3, 256)
        a1 == a2 + 16 * SqrtDigit(n, a2, 16)
    IN a1 + SqrtDigit(n, a1, 1)
\* sqrt of the fixed-point number a >= 0, rounded to the nearest unit
SqrtFx(a) ==
    LET n == a * SCALE
        s == ISqrt(n)
    IN IF n - s * s > s THEN s + 1 ELSE s

RECURSIVE ExpTaylor(_, _, _, _)
\* sum of the Taylor terms f^i / i! for i >= n, term being the (n-1)-th term
ExpTaylor(f, n, term, acc) ==
    LET t == Rnd(term * f, n * SCALE)
    IN IF t = 0 THEN acc ELSE ExpTaylor(f, n + 1, t, acc + t)
RECURSIVE EPow(_)
\* e^k for a whole k
EPow(k) ==
    LET e == ExpTaylor(SCALE, 1, SCALE, SCALE)
    IN IF k = 0 THEN SCALE
       ELSE IF k > 0 THEN MulFx(EPow(k - 1), e)
       ELSE MulFx(EPow(k + 1), DivFx(SCALE, e))
\* exp of the fixed-point number a
ExpFx(a) ==
    LET k == a \div SCALE
        f == a % SCALE
    IN IF k < -9 THEN 0
       ELSE MulFx(EPow(k), ExpTaylor(f, 1, SCALE, SCALE))

RECURSIVE AtanhSeries(_, _, _, _)
\* y + y^3/3 + y^5/5 + ... from the term y^n / n on, pw = y^n
AtanhSeries(y2, n, pw, acc) ==
    LET t == Rnd(pw, n)
    IN IF pw = 0 \/ n > 15 THEN acc
       ELSE AtanhSeries(y2, n + 2, MulFx(pw, y2), acc + t)
\* ln of a fixed-point number in [1/2, 2]
LnCore(a) ==
    LET y == DivFx(a - SCALE, a + SCALE)
    IN 2 * AtanhSeries(MulFx(y, y), 1, y, 0)
RECURSIVE LnFx(_)
\* ln of the fixed-point number a > 0
LnFx(a) ==
    IF a > 2 * SCALE THEN LnFx(Rnd(a, 2)) + LnCore(2 * SCALE)
    ELSE IF 2 * a < SCALE THEN LnFx(2 * a) - LnCore(2 * SCALE)
    ELSE LnCore(a)

\* the standard normal distribution function at 0.0, 0.1, ..., 4.0
CdfTable ==
    << 500, 540, 579, 618, 655, 691, 726, 758, 788, 816,
       841, 864, 885, 903, 919, 933, 945, 955, 964, 971,
       977, 982, 986, 989, 992, 994, 995, 997, 997, 998,
       999, 999, 999, 1000, 1000, 1000, 1000, 1000, 1000, 1000, 1000 >>
\* the distribution function at the fixed-point number a >= 0, interpolated
CdfPos(a) ==
    LET step == SCALE \div 10
        i == a \div step
        f == a % step
    IN IF i >= Len(CdfTable) - 1 THEN SCALE
       ELSE Rnd(CdfTable[i + 1] * (step - f) + CdfTable[i + 2] * f, step) * (SCALE \div 1000)
CdfFx(a) == IF a >= 0 THEN CdfPos(a) ELSE SCALE - CdfPos(-a)
\* the standard normal density at the fixed-point number a
PdfFx(a) ==
    IF Abs(a) > 10 * SCALE THEN 0
    ELSE Rnd(ExpFx(-Rnd(a * a, 2 * SCALE)) * 398942, 1000000)

(***************************************************************************)
(* float64 arithmetic                                                      *)
(***************************************************************************)
FNeg(x) == IF IsNan(x) THEN NaN ELSE [x EXCEPT !.v = -x.v]
FAdd(x, y) ==
    IF IsNan(x) \/ IsNan(y) THEN NaN
    ELSE IF IsInf(x) /\ IsInf(y) THEN (IF x.v = y.v THEN x ELSE NaN)
    ELSE IF IsInf(x) THEN x
    ELSE IF IsInf(y) THEN y
    ELSE Fin(x.v + y.v)
FSub(x, y) == FAdd(x, FNeg(y))
FMul(x, y) ==
    IF IsNan(x) \/ IsNan(y) THEN NaN
    ELSE IF IsInf(x) \/ IsInf(y)
         THEN (IF IsZero(x) \/ IsZero(y) THEN NaN ELSE InfOf(FSign(x) * FSign(y)))
    ELSE Fin(MulFx(x.v, y.v))
\* numpy's true division: a zero denominator gives +-inf or NaN, never a fault
FDiv(x, y) ==
    IF IsNan(x) \/ IsNan(y) THEN NaN
    ELSE IF IsInf(x) THEN (IF IsInf(y) THEN NaN
                           ELSE InfOf(x.v * (IF y.v < 0 THEN -1 ELSE 1)))
    ELSE IF IsInf(y) THEN Fin(0)
    ELSE IF y.v = 0 THEN (IF x.v = 0 THEN NaN ELSE InfOf(x.v))
    ELSE Fin(DivFx(x.v, y.v))
FSqrt(x) ==
    IF IsNan(x) THEN NaN
    ELSE IF IsInf(x) THEN (IF x.v > 0 THEN PosInf ELSE NaN)
    ELSE IF x.v < 0 THEN NaN
    ELSE Fin(SqrtFx(x.v))
FLog(x) ==
    IF IsNan(x) THEN NaN
    ELSE IF IsInf(x) THEN (IF x.v > 0 THEN PosInf ELSE NaN)
    ELSE IF x.v < 0 THEN NaN
    ELSE IF x.v = 0 THEN NegInf
    ELSE Fin(LnFx(x.v))
FExp(x) ==
    IF IsNan(x) THEN NaN
    ELSE IF IsInf(x) THEN (IF x.v > 0 THEN PosInf ELSE Fin(0))
    ELSE Fin(ExpFx(x.v))
norm_cdf(x) ==
    IF IsNan(x) THEN NaN
    ELSE IF IsInf(x) THEN (IF x.v > 0 THEN Num(1) ELSE Fin(0))
    ELSE Fin(CdfFx(x.v))
norm_pdf(x) ==
    IF IsNan(x) THEN NaN
    ELSE IF IsInf(x) THEN Fin(0)
    ELSE Fin(PdfFx(x.v))
Half == Fin(SCALE \div 2)

(***************************************************************************)
(* OptionAnalytics: FullBlackScholes.py, lines 76-106                      *)
(***************************************************************************)
\* variant: safe_divide without its zero check
plain_divide(num, denom) == FDiv(num, denom)

\* def safe_divide(num, denom)
safe_divide(num, denom) ==
    IF IsZero(denom) THEN Fin(0)
    ELSE FDiv(num, denom)

\* the numerator and the denominator of d1 (lines 85 and 99, the same text)
d1_num(S, K, T, r, sigma) ==
    FAdd(FLog(FDiv(S, K)), FMul(FAdd(r, FMul(Half, FMul(sigma, sigma))), T))
d1_denom(T, sigma) == FMul(sigma, FSqrt(T))
d1_of(S, K, T, r, sigma) ==
    safe_divide(d1_num(S, K, T, r, sigma), d1_denom(T, sigma))
d2_of(S, K, T, r, sigma) ==
    FSub(d1_of(S, K, T, r, sigma), FMul(sigma, FSqrt(T)))

\* variant: the guard without the test sigma == 0
bs_invalid_nan_only(S, K, T, r, sigma) ==
    IsNan(S) \/ IsNan(K) \/ IsNan(T) \/ IsNan(r) \/ IsNan(sigma)

\* the guard of black_scholes (line 83)
bs_invalid(S, K, T, r, sigma) ==
    IsNan(S) \/ IsNan(K) \/ IsNan(T) \/ IsNan(r) \/ IsNan(sigma) \/ IsZero(sigma)

\* variant: the put priced with cdf(d2) and cdf(d1) in place of cdf(-d2) and
\* cdf(-d1)
black_scholes_put_unmirrored(S, K, T, r, sigma, option_type) ==
    IF bs_invalid(S, K, T, r, sigma) THEN Fin(0)
    ELSE LET d1 == d1_of(S, K, T, r, sigma)
             d2 == d2_of(S, K, T, r, sigma)
             disc == FMul(K, FExp(FMul(FNeg(r), T)))
         IN IF option_type = "call"
            THEN FSub(FMul(S, norm_cdf(d1)), FMul(disc, norm_cdf(d2)))
            ELSE FSub(FMul(disc, norm_cdf(d2)), FMul(S, norm_cdf(d1)))

\* def black_scholes(S, K, T, r, sigma, option_type='call')
black_scholes(S, K, T, r, sigma, option_type) ==
    IF bs_invalid(S, K, T, r, sigma) THEN Fin(0)
    ELSE LET d1 == d1_of(S, K, T, r, sigma)
             d2 == d2_of(S, K, T, r, sigma)
             disc == FMul(K, FExp(FMul(FNeg(r), T)))
         IN IF option_type = "call"
            THEN FSub(FMul(S, norm_cdf(d1)), FMul(disc, norm_cdf(d2)))
            ELSE FSub(FMul(disc, norm_cdf(FNeg(d2))), FMul(S, norm_cdf(FNeg(d1))))

\* one division the code performs: where, its denominator, what it yielded
DivRec(site, denom, res) == [site |-> site, denom |-> denom, res |-> res]

\* the divisions black_scholes performs (none when the guard returns early)
bs_divisions(S, K, T, r, sigma) ==
    IF bs_invalid(S, K, T, r, sigma) THEN {}
    ELSE { DivRec("S/K", K, FDiv(S, K)),
           DivRec("d1", d1_denom(T, sigma), d1_of(S, K, T, r, sigma)) }

\* the guard of calculate_greeks (line 95)
greeks_invalid(S, T, r, sigma) ==
    IsNan(S) \/ IsNan(sigma) \/ IsNan(T) \/ IsNan(r)

GreekNames == {"Delta", "Gamma", "Theta", "Vega", "Rho"}

\* variant: Delta of a put without the shift by 1
greeks_delta_unshifted(S, K, T, r, sigma, option_type) ==
    norm_cdf(d1_of(S, K, T, r, sigma))

\* lines 101-105: the five values appended for one strike
greeks_delta(S, K, T, r, sigma, option_type) ==
    LET d1 == d1_of(S, K, T, r, sigma)
    IN IF option_type = "call" THEN norm_cdf(d1) ELSE FSub(norm_cdf(d1), Num(1))
gamma_denom(S, T, sigma) == FMul(FMul(S, sigma), FSqrt(T))
greeks_gamma(S, K, T, r, sigma) ==
    safe_divide(norm_pdf(d1_of(S, K, T, r, sigma)), gamma_denom(S, T, sigma))
theta_denom(T) == FMul(Num(2), FSqrt(T))
theta_quot(S, K, T, r, sigma) ==
    safe_divide(FMul(FMul(S, norm_pdf(d1_of(S, K, T, r, sigma))), sigma), theta_denom(T))
greeks_theta(S, K, T, r, sigma) ==
    FSub(FNeg(theta_quot(S, K, T, r, sigma)),
         FMul(FMul(FMul(r, K), FExp(FMul(FNeg(r), T))),
              norm_cdf(d2_of(S, K, T, r, sigma))))
greeks_vega(S, K, T, r, sigma) ==
    safe_divide(FMul(FMul(S, norm_pdf(d1_of(S, K, T, r, sigma))), FSqrt(T)), Num(100))
greeks_rho(S, K, T, r, sigma, option_type) ==
    LET d2 == d2_of(S, K, T, r, sigma)
    IN safe_divide(FMul(FMul(FMul(K, T), FExp(FMul(FNeg(r), T))),
                        IF option_type = "call" THEN norm_cdf(d2)
                        ELSE FNeg(norm_cdf(FNeg(d2)))),
                   Num(100))

\* lines 95-105: the body of the loop for one strike K
greeks_step(results, S, K, T, r, sigma, option_type) ==
    IF greeks_invalid(S, T, r, sigma)
    THEN [key \in GreekNames |-> Append(results[key], NaN)]
    ELSE [results EXCEPT
            !["Delta"] = Append(@, greeks_delta(S, K, T, r, sigma, option_type)),
            !["Gamma"] = Append(@, greeks_gamma(S, K, T, r, sigma)),
            !["Theta"] = Append(@, greeks_theta(S, K, T, r, sigma)),
            !["Vega"] = Append(@, greeks_vega(S, K, T, r, sigma)),
            !["Rho"] = Append(@, greeks_rho(S, K, T, r, sigma, option_type))]

RECURSIVE greeks_loop_first_strike(_, _, _, _, _, _, _, _)
\* variant: the loop computes every entry from the first strike
greeks_loop_first_strike(results, i, S, Ks, T, r, sigma, option_type) ==
    IF i > Len(Ks) THEN results
    ELSE greeks_loop_first_strike(greeks_step(results, S, Ks[1], T, r, sigma, option_type),
                                  i + 1, S, Ks, T, r, sigma, option_type)

RECURSIVE greeks_loop(_, _, _, _, _, _, _, _)
\* line 94: for K in Ks, from the i-th strike on
greeks_loop(results, i, S, Ks, T, r, sigma, option_type) ==
    IF i > Len(Ks) THEN results
    ELSE greeks_loop(greeks_step(results, S, Ks[i], T, r, sigma, option_type),
                     i + 1, S, Ks, T, r, sigma, option_type)

\* variant: the dictionary of the previous call is kept and appended to
kept_results ==
    IF fn = "calculate_greeks" THEN ret ELSE [key \in GreekNames |-> << >>]

\* line 93: the dictionary a call starts from
new_results == [key \in GreekNames |-> << >>]

\* def calculate_greeks(S, Ks, T, r, sigma, option_type='call')
calculate_greeks(S, Ks, T, r, sigma, option_type) ==
    greeks_loop(new_results, 1, S, Ks, T, r, sigma, option_type)

\* the divisions calculate_greeks performs for one strike
strike_divisions(S, K, T, r, sigma, option_type) ==
    IF greeks_invalid(S, T, r, sigma) THEN {}
    ELSE { DivRec("S/K", K, FDiv(S, K)),
           DivRec("d1", d1_denom(T, sigma), d1_of(S, K, T, r, sigma)),
           DivRec("Gamma", gamma_denom(S, T, sigma), greeks_gamma(S, K, T, r, sigma)),
           DivRec("Theta", theta_denom(T), theta_quot(S, K, T, r, sigma)),
           DivRec("Vega", Num(100), greeks_vega(S, K, T, r, sigma)),
           DivRec("Rho", Num(100), greeks_rho(S, K, T, r, sigma, option_type)) }
greeks_divisions(S, Ks, T, r, sigma, option_type) ==
    UNION { strike_divisions(S, Ks[i], T, r, sigma, option_type) : i \in 1..Len(Ks) }

(***************************************************************************)
(* BlackScholesForCall&PutOption.py, lines 5-10: both prices at once,      *)
(* with plain divisions and no guard                                       *)
(***************************************************************************)
script_black_scholes(S, K, T, r, sigma) ==
    LET d1 == FDiv(d1_num(S, K, T, r, sigma), FMul(sigma, FSqrt(T)))
        d2 == FSub(d1, FMul(sigma, FSqrt(T)))
        disc == FMul(K, FExp(FMul(FNeg(r), T)))
    IN << FSub(FMul(S, norm_cdf(d1)), FMul(disc, norm_cdf(d2))),
          FSub(FMul(disc, norm_cdf(FNeg(d2))), FMul(S, norm_cdf(FNeg(d1)))) >>


(***************************************************************************)
(* VolatilityEstimator: FullBlackScholes.py, lines 19-50                   *)
(***************************************************************************)
\* Python's None
None == [k |-> "none", v |-> 0]

\* hist_data['Close'].pct_change(): close / previous close - 1, NaN first
pct_change(close) ==
    [i \in 1..Len(close) |->
        IF i = 1 THEN NaN ELSE FSub(FDiv(close[i], close[i - 1]), Num(1))]
\* Series.dropna()
dropna(xs) == SelectSeq(xs, LAMBDA x : ~IsNan(x))
\* line 36
daily_returns_of(close) == dropna(pct_change(close))

\* (a + b) + (c + d)
FAdd4(a, b, c, d) ==
    LET all == {a, b, c, d}
    IN IF \E x \in all : IsNan(x) THEN NaN
       ELSE IF PosInf \in all /\ NegInf \in all THEN NaN
       ELSE IF PosInf \in all THEN PosInf
       ELSE IF NegInf \in all THEN NegInf
       ELSE Fin(a.v + b.v + c.v + d.v)
RECURSIVE FSumRange(_, _, _)
\* the sum of xs[lo..hi], added in blocks
FSumRange(xs, lo, hi) ==
    IF lo > hi THEN Fin(0)
    ELSE IF hi - lo < 4
    THEN FAdd4(xs[lo], IF lo + 1 <= hi THEN xs[lo + 1] ELSE Fin(0),
               IF lo + 2 <= hi THEN xs[lo + 2] ELSE Fin(0),
               IF lo + 3 <= hi THEN xs[lo + 3] ELSE Fin(0))
    ELSE LET q == (hi - lo + 4) \div 4
             h3 == IF lo + 3 * q - 1 < hi THEN lo + 3 * q - 1 ELSE hi
         IN FAdd4(FSumRange(xs, lo, lo + q - 1), FSumRange(xs, lo + q, lo + 2 * q - 1),
                  FSumRange(xs, lo + 2 * q, h3), FSumRange(xs, h3 + 1, hi))
\* the sum of the first n entries of xs
FSum(xs, n) == FSumRange(xs, 1, n)
\* the standard deviation with divisor len(xs) - ddof
stdev(xs, ddof) ==
    LET n == Len(xs)
        mean == FDiv(FSum(xs, n), Num(n))
        sq == [i \in 1..n |-> FMul(FSub(xs[i], mean), FSub(xs[i], mean))]
    IN FSqrt(FDiv(FSum(sq, n), Num(n - ddof)))
\* np.std(daily_returns): numpy hands a pandas Series to Series.std with its
\* own default ddof=0, the population standard deviation
np_std(xs) == stdev(xs, 0)

\* line 21
scale == 100
\* line 41: the least number of returns the GARCH fit is attempted above
MinGarchLen == 30
\* trading days per year (lines 28 and 48)
TradingDays == 252

\* What the arch library does with the series is not this repository's code:
\* fails says which step raises ("none", "build", "fit", "forecast") and
\* variance is the one-step forecast of a fit that succeeds.
GarchEnvs ==
    { [fails |-> "none", variance |-> Num(4)],
      [fails |-> "none", variance |-> NaN],
      [fails |-> "build", variance |-> NaN],
      [fails |-> "fit", variance |-> NaN],
      [fails |-> "forecast", variance |-> NaN] }

\* def get_garch_volatility(returns): arch_model(...) is built before the try
\* (line 23), fit and forecast run inside it (lines 25-26)
get_garch_volatility(returns, env) ==
    IF env.fails = "build"
    THEN [ret |-> None, raised |-> TRUE, log |-> << >>]
    ELSE IF env.fails \in {"fit", "forecast"}
    THEN [ret |-> None, raised |-> FALSE, log |-> <<"ERROR">>]
    ELSE [ret |-> FMul(FDiv(FSqrt(env.variance), Num(scale)), FSqrt(Num(TradingDays))),
          raised |-> FALSE, log |-> <<"INFO">>]

\* lines 48-50
fallback_volatility(daily_returns) ==
    FMul(np_std(daily_returns), FSqrt(Num(TradingDays)))

\* variant: the fit is attempted from 30 returns on
garch_attempted_from_30(daily_returns) == Len(daily_returns) >= 30

\* line 41
garch_attempted(daily_returns) == Len(daily_returns) > MinGarchLen

\* variant: the test is daily_returns.isnull().any()
returns_unusable_any(daily_returns) ==
    \E i \in 1..Len(daily_returns) : IsNan(daily_returns[i])

\* line 37: daily_returns.empty or daily_returns.isnull().all()
returns_unusable(daily_returns) ==
    daily_returns = << >> \/ \A i \in 1..Len(daily_returns) : IsNan(daily_returns[i])

\* def calculate_annualized_volatility(hist_data)
calculate_annualized_volatility(close, env) ==
    LET daily_returns == daily_returns_of(close)
        garch == get_garch_volatility(daily_returns, env)
        fallback == [ret |-> fallback_volatility(daily_returns), raised |-> FALSE,
                     log |-> <<"INFO">>, calls |-> {"np.std"}]
    IN IF returns_unusable(daily_returns)
       THEN [ret |-> NaN, raised |-> FALSE, log |-> <<"WARNING">>, calls |-> {}]
       ELSE IF garch_attempted(daily_returns)
       THEN IF garch.raised
            THEN [ret |-> None, raised |-> TRUE, log |-> garch.log,
                  calls |-> {"get_garch_volatility"}]
            ELSE IF garch.ret # None
            THEN [ret |-> garch.ret, raised |-> FALSE, log |-> garch.log,
                  calls |-> {"get_garch_volatility"}]
            ELSE [fallback EXCEPT
                    !.log = garch.log \o <<"WARNING">> \o @,
                    !.calls = @ \cup {"get_garch_volatility"}]
       ELSE fallback

(***************************************************************************)
(* The inputs the functions are applied to                                 *)
(***************************************************************************)
SpotVals == {NaN, Num(100)}
StrikeVals == {NaN, Fin(0), Num(100), Num(150)}
TenorVals == {NaN, Fin(-(SCALE \div 2)), Fin(0), Fin(SCALE \div 2), Num(1)}
RateVals == {NaN, Fin(0), Fin(SCALE \div 50)}
VolVals == {NaN, Fin(0), Fin(SCALE \div 5)}
OptionTypes == {"call", "put"}
PriceVals == {Fin(0), Num(100), Num(150)}

StrikeSeqs == UNION { [1..n -> StrikeVals] : n \in 0..MaxStrikes }
\* a close-price history of length n repeating a, b, c
History(n, a, b, c) ==
    [i \in 1..n |-> IF i % 3 = 1 THEN a ELSE IF i % 3 = 2 THEN b ELSE c]
Histories ==
    { History(n, a, b, c) : n \in 0..MaxHist, a \in PriceVals, b \in PriceVals, c \in PriceVals }

NoArgs == [S |-> NaN, K |-> NaN, Ks |-> << >>, T |-> NaN, r |-> NaN, sigma |-> NaN,
           option_type |-> "call", close |-> << >>, env |-> [fails |-> "none", variance |-> NaN]]
PricingArgs ==
    { [NoArgs EXCEPT !.S = S, !.K = K, !.T = T, !.r = r, !.sigma = sigma] :
        S \in SpotVals, K \in StrikeVals, T \in TenorVals, r \in RateVals, sigma \in VolVals }
GreeksArgs ==
    { [NoArgs EXCEPT !.S = S, !.Ks = Ks, !.T = T, !.r = r, !.sigma = sigma] :
        S \in SpotVals, Ks \in StrikeSeqs, T \in TenorVals, r \in RateVals, sigma \in VolVals }
VolatilityArgs ==
    { [NoArgs EXCEPT !.close = h, !.env = e] : h \in Histories, e \in GarchEnvs }

(***************************************************************************)
(* Applying the functions                                                  *)
(***************************************************************************)
Init ==
    /\ fn = "none"
    /\ args \in [kind : {"pricing"}, a : PricingArgs]
            \cup [kind : {"greeks"}, a : GreeksArgs]
            \cup [kind : {"volatility"}, a : VolatilityArgs]
    /\ ret = None
    /\ raised = FALSE
    /\ log = << >>
    /\ calls = {}
    /\ divs = {}

CallBlackScholes ==
    /\ args.kind = "pricing"
    /\ \E option_type \in OptionTypes :
         LET a == args.a
         IN /\ fn' = "black_scholes"
            /\ args' = [args EXCEPT !.a.option_type = option_type]
            /\ ret' = black_scholes(a.S, a.K, a.T, a.r, a.sigma, option_type)
            /\ divs' = bs_divisions(a.S, a.K, a.T, a.r, a.sigma)
    /\ raised' = FALSE
    /\ log' = << >>
    /\ calls' = {}

CallScriptBlackScholes ==
    /\ args.kind = "pricing"
    /\ fn' = "script_black_scholes"
    /\ ret' = script_black_scholes(args.a.S, args.a.K, args.a.T, args.a.r, args.a.sigma)
    /\ raised' = FALSE
    /\ log' = << >>
    /\ calls' = {}
    /\ divs' = {}
    /\ UNCHANGED args

CallCalculateGreeks ==
    /\ args.kind = "greeks"
    /\ \E option_type \in OptionTypes :
         LET a == args.a
         IN /\ fn' = "calculate_greeks"
            /\ args' = [args EXCEPT !.a.option_type = option_type]
            /\ ret' = calculate_greeks(a.S, a.Ks, a.T, a.r, a.sigma, option_type)
            /\ divs' = greeks_divisions(a.S, a.Ks, a.T, a.r, a.sigma, option_type)
    /\ raised' = FALSE
    /\ log' = << >>
    /\ calls' = {}

CallCalculateAnnualizedVolatility ==
    /\ args.kind = "volatility"
    /\ LET out == calculate_annualized_volatility(args.a.close, args.a.env)
       IN /\ fn' = "calculate_annualized_volatility"
          /\ ret' = out.ret
          /\ raised' = out.raised
          /\ log' = out.log
          /\ calls' = out.calls
    /\ divs' = {}
    /\ UNCHANGED args

Next ==
    \/ CallBlackScholes
    \/ CallScriptBlackScholes
    \/ CallCalculateGreeks
    \/ CallCalculateAnnualizedVolatility

Spec == Init /\ [][Next]_vars
(***************************************************************************)
(* Properties                                                              *)
(***************************************************************************)
A == args.a
\* the daily returns of the price history of the call
Returns == daily_returns_of(A.close)
\* the condition of C1 and C2: an undefined input, or zero volatility
Degenerate(S, K, T, r, sigma) ==
    IsNan(S) \/ IsNan(K) \/ IsNan(T) \/ IsNan(r) \/ IsNan(sigma) \/ sigma = Fin(0)

\* C1: whenever one of S, K, T, r, sigma is NaN or sigma is 0, black_scholes
\* returns exactly 0, for a call and for a put, and raises nothing.
C1_DegeneratePriceIsZero ==
    (fn = "black_scholes" /\ Degenerate(A.S, A.K, A.T, A.r, A.sigma))
        => (ret = Fin(0) /\ ~raised)
\* the scenario S=100, K=150, T=0.5, r=0.02, sigma=0 priced as a put
C1_Witness ==
    /\ fn = "black_scholes"
    /\ A.option_type = "put"
    /\ A.S = Num(100) /\ A.K = Num(150) /\ A.T = Half
    /\ A.r = Fin(SCALE \div 50) /\ A.sigma = Fin(0)
    /\ ret = Fin(0)

\* C2: for every strike K passed to calculate_greeks, if one of S, K, T, r,
\* sigma is NaN or sigma is 0, all five Greeks recorded for that strike are NaN.
C2_DegenerateGreeksAreNaN ==
    fn = "calculate_greeks" =>
        \A i \in 1..Len(A.Ks) :
            Degenerate(A.S, A.Ks[i], A.T, A.r, A.sigma)
                => \A key \in GreekNames :
                      i \in DOMAIN ret[key] /\ IsNan(ret[key][i])

\* C3: each of the five lists calculate_greeks returns has as many entries as
\* the strike sequence of that call, whatever was called before, and entry i
\* is the one computed from the i-th strike.
C3_OneEntryPerStrike ==
    fn = "calculate_greeks" =>
        /\ DOMAIN ret = GreekNames
        /\ \A key \in GreekNames : Len(ret[key]) = Len(A.Ks)
        /\ \A i \in 1..Len(A.Ks) :
              ret["Delta"][i] =
                  IF IsNan(A.S) \/ IsNan(A.sigma) \/ IsNan(A.T) \/ IsNan(A.r) THEN NaN
                  ELSE greeks_delta(A.S, A.Ks[i], A.T, A.r, A.sigma, A.option_type)
\* a call with two different strikes, whose Deltas come back in the order of
\* the strikes
C3_Witness ==
    /\ fn = "calculate_greeks"
    /\ Len(A.Ks) = 2 /\ A.Ks[1] = Num(150) /\ A.Ks[2] = Num(100)
    /\ Len(ret["Delta"]) = 2 /\ Len(ret["Rho"]) = 2
    /\ IsFin(ret["Delta"][1]) /\ IsFin(ret["Delta"][2])
    /\ ret["Delta"][1].v < ret["Delta"][2].v

\* C4 as stated: for a non-empty return series of at most 30 returns the GARCH
\* fit is not attempted and the result is the sample standard deviation
\* (divisor n - 1) times sqrt(252).
C4_SampleStdevFallback ==
    (fn = "calculate_annualized_volatility" /\ Returns # << >> /\ Len(Returns) <= 30)
        => /\ "get_garch_volatility" \notin calls
           /\ ~raised
           /\ ret = FMul(stdev(Returns, 1), FSqrt(Num(252)))
\* C4 as amended: for a non-empty return series of at most 30 returns the GARCH
\* fit is not attempted and the result is the population standard deviation
\* (divisor n) times sqrt(252).
C4_PopulationStdevFallback ==
    (fn = "calculate_annualized_volatility" /\ Returns # << >> /\ Len(Returns) <= 30)
        => /\ "get_garch_volatility" \notin calls
           /\ ~raised
           /\ ret = FMul(stdev(Returns, 0), FSqrt(Num(252)))
\* exactly 30 returns, of which not all are equal
C4_Witness ==
    /\ fn = "calculate_annualized_volatility"
    /\ Len(Returns) = 30
    /\ calls = {"np.std"}
    /\ IsFin(ret) /\ ret.v > 0

\* C5: when the return series is empty or entirely undefined,
\* calculate_annualized_volatility returns NaN, raises nothing, logs a warning
\* and enters neither the GARCH fit nor the standard deviation.
C5_NoDataGivesNaN ==
    (/\ fn = "calculate_annualized_volatility"
     /\ \A i \in 1..Len(A.close) : IsNan(pct_change(A.close)[i]))
        => /\ ret = NaN
           /\ ~raised
           /\ log = <<"WARNING">>
           /\ calls = {}
\* a history of three closes whose changes are all undefined
C5_Witness ==
    /\ fn = "calculate_annualized_volatility"
    /\ Len(A.close) = 3
    /\ \A i \in 1..3 : IsNan(pct_change(A.close)[i])
    /\ ret = NaN
    /\ log = <<"WARNING">>

\* C6: for more than 30 returns, whenever the GARCH estimation fails at any
\* step (building, fitting or forecasting the model), the fallback
\* stdev(returns) * sqrt(252) is returned and no error reaches the caller.
C6_GarchFailureFallsBack ==
    (/\ fn = "calculate_annualized_volatility"
     /\ Len(Returns) > 30
     /\ A.env.fails # "none")
        => /\ ~raised
           /\ ret = FMul(np_std(Returns), FSqrt(Num(252)))

\* C7 as stated: in black_scholes and calculate_greeks every division whose
\* denominator is exactly 0 yields 0, the S/K quotient inside d1 included.
C7_EveryZeroDivisionYieldsZero ==
    fn \in {"black_scholes", "calculate_greeks"} =>
        \A d \in divs : d.denom = Fin(0) => d.res = Fin(0)
\* C7 as amended: every division made through safe_divide (the outer quotient
\* of d1, and those of Gamma, Theta, Vega and Rho) yields 0 when its
\* denominator is exactly 0; the S/K quotient is a plain division.
C7_SafeDivisionsYieldZero ==
    fn \in {"black_scholes", "calculate_greeks"} =>
        \A d \in divs : (d.site # "S/K" /\ d.denom = Fin(0)) => d.res = Fin(0)
\* T = 0 with a positive volatility: sigma*sqrt(T), S*sigma*sqrt(T) and
\* 2*sqrt(T) are all 0
C7_Witness ==
    /\ fn = "calculate_greeks"
    /\ A.T = Fin(0) /\ IsFin(A.sigma) /\ A.sigma.v > 0
    /\ \A site \in {"d1", "Gamma", "Theta"} :
          \E d \in divs : d.site = site /\ d.denom = Fin(0) /\ d.res = Fin(0)

\* the error of put-call parity, call - put - (S - K*exp(-r*T))
ParityError(call, put, S, K, T, r) ==
    FSub(FSub(call, put), FSub(S, FMul(K, FExp(FMul(FNeg(r), T)))))
\* within the tolerance: two units of the grid, the four roundings of the
\* products of the two prices
WithinTolerance(x) == IsFin(x) /\ Abs(x.v) <= 2
ValidInputs(S, K, T, r, sigma) ==
    /\ IsFin(S) /\ IsFin(K) /\ IsFin(T) /\ IsFin(r) /\ IsFin(sigma)
    /\ sigma.v > 0 /\ T.v > 0

\* C8: for valid inputs (all defined, sigma > 0, T > 0) the call and the put
\* price of black_scholes, of either file, satisfy call - put = S - K*exp(-r*T)
\* within the tolerance.
C8_PutCallParity ==
    ValidInputs(A.S, A.K, A.T, A.r, A.sigma) =>
        /\ fn = "black_scholes" =>
              LET other == black_scholes(A.S, A.K, A.T, A.r, A.sigma,
                                         IF A.option_type = "call" THEN "put" ELSE "call")
                  call == IF A.option_type = "call" THEN ret ELSE other
                  put == IF A.option_type = "call" THEN other ELSE ret
              IN WithinTolerance(ParityError(call, put, A.S, A.K, A.T, A.r))
        /\ fn = "script_black_scholes" =>
              WithinTolerance(ParityError(ret[1], ret[2], A.S, A.K, A.T, A.r))
\* an in-the-money put priced with valid inputs
C8_Witness ==
    /\ fn = "black_scholes"
    /\ A.option_type = "put"
    /\ A.S = Num(100) /\ A.K = Num(150) /\ A.T = Num(1)
    /\ A.r = Fin(SCALE \div 50) /\ A.sigma = Fin(SCALE \div 5)
    /\ IsFin(ret) /\ ret.v > 40 * SCALE

\* C9: the five values calculate_greeks records at index i are those of a call
\* with the single strike Ks[i] and the same other arguments; an invalid strike
\* in the sequence neither aborts the batch nor changes the other entries.
C9_StrikesAreIndependent ==
    fn = "calculate_greeks" =>
        /\ ~raised
        /\ \A key \in GreekNames : Len(ret[key]) = Len(A.Ks)
        /\ \A i \in 1..Len(A.Ks) :
              LET single == calculate_greeks(A.S, <<A.Ks[i]>>, A.T, A.r, A.sigma, A.option_type)
              IN \A key \in GreekNames : ret[key][i] = single[key][1]
\* an undefined strike followed by a valid one
C9_Witness ==
    /\ fn = "calculate_greeks"
    /\ Len(A.Ks) = 2 /\ IsNan(A.Ks[1]) /\ A.Ks[2] = Num(100)
    /\ IsNan(ret["Theta"][1])
    /\ IsFin(ret["Theta"][2]) /\ ret["Theta"][2].v < 0

\* C10: for the same S, strikes, T, r, sigma the Theta, Gamma and Vega lists
\* of a call and of a put are identical, and Delta of the put is Delta of the
\* call minus 1 at every strike.
C10_OptionTypeAffectsOnlyDeltaAndRho ==
    fn = "calculate_greeks" =>
        LET other == calculate_greeks(A.S, A.Ks, A.T, A.r, A.sigma,
                                      IF A.option_type = "call" THEN "put" ELSE "call")
            call == IF A.option_type = "call" THEN ret ELSE other
            put == IF A.option_type = "call" THEN other ELSE ret
        IN /\ \A key \in {"Theta", "Gamma", "Vega"} : call[key] = put[key]
           /\ Len(put["Delta"]) = Len(call["Delta"])
           /\ \A i \in 1..Len(A.Ks) :
                 put["Delta"][i] = FSub(call["Delta"][i], Num(1))
\* a put whose Delta is negative and whose Rho differs from the call's
C10_Witness ==
    /\ fn = "calculate_greeks"
    /\ A.option_type = "put"
    /\ Len(A.Ks) = 1
    /\ IsFin(ret["Delta"][1]) /\ ret["Delta"][1].v < 0
    /\ IsFin(ret["Rho"][1]) /\ ret["Rho"][1].v < 0
    /\ IsFin(ret["Theta"][1]) /\ ret["Theta"][1].v < 0
====
